---- MODULE Spec2Model ----
(***************************************************************************)
(* DbtArtifactProcessor (openlineage/common/provider/dbt.py): parse() of    *)
(* dbt's manifest, run_results, catalog and profile into OpenLineage       *)
(* start / complete / fail events.  Spec is one parse() of a processor     *)
(* constructed with the default profile_name and target; SpecRepeat is     *)
(* successive parse() calls on one processor.                              *)
(*                                                                         *)
(* Strings that the code takes apart or puts together (unit ids, database, *)
(* schema, names, namespaces) are sequences of tokens, "model." being      *)
(* <<"model", ".">>.  An optional value (None, or a missing dict key) is   *)
(* the empty sequence and a present one the one-element sequence.  A dict  *)
(* is the sequence of its [k, v] items in insertion order.  An operator    *)
(* that can raise returns [ok, exc, val].                                  *)
(***************************************************************************)
EXTENDS Integers, Sequences, FiniteSets, TLC

VARIABLES
    skip_errors,        \* self.skip_errors
    environ,            \* os.environ.get('OPENLINEAGE_NAMESPACE'): None or Some(string)
    dataset_namespace,  \* self.dataset_namespace
    job_namespace,      \* self.job_namespace
    profile_name,       \* self.profile_name
    target,             \* self.target
    init_args,          \* the profile_name and target __init__ was called with
    calls,              \* number of parse() calls begun
    pc,                 \* position of the parse() call
    profile_entry,      \* parse(): profiles.yml[self.profile_name]
    profile,            \* parse(): profile['outputs'][target], None before parse()
    manifest,           \* parse(): manifest
    run_results,        \* parse(): run_result
    catalog,            \* parse(): catalog, None when catalog.json is missing
    runs,               \* parse_run(): runs
    idx,                \* position of the loop over runs / over run_results['results']
    start_events,       \* parse_run(): start_events
    complete_events,    \* parse_run(): complete_events
    fail_events,        \* parse_run(): fail_events
    assertions,         \* parse_test(): assertions (defaultdict(list))
    model_nodes,        \* parse_test(): model_node of each record handled so far
    returned,           \* the DbtEvents parse() returned, None while none
    error,              \* the exception parse() raised, None while none
    uuid_counter        \* number of uuid4() values drawn so far

vars == <<skip_errors, environ, dataset_namespace, job_namespace, profile_name,
          target, init_args, calls, pc, profile_entry, profile,
          manifest, run_results, catalog, runs, idx, start_events,
          complete_events, fail_events, assertions, model_nodes, returned,
          error, uuid_counter>>

-----------------------------------------------------------------------------
(* Bounds of the checked inputs *)

MaxRuns == 2
MaxTests == 2
MaxParents == 2
MaxCalls == 2

-----------------------------------------------------------------------------
(* Values *)

None == <<>>
Some(x) == <<x>>

Ok(v) == [ok |-> TRUE, exc |-> "", cause |-> "", val |-> v]
Raise(e) == [ok |-> FALSE, exc |-> e, cause |-> "", val |-> None]
RaiseFrom(e, c) == [ok |-> FALSE, exc |-> e, cause |-> c, val |-> None]

Dot == <<".">>

Item(key, value) == [k |-> key, v |-> value]
HasKey(d, key) == \E i \in DOMAIN d : d[i].k = key
Lookup(d, key) == d[CHOOSE i \in DOMAIN d : d[i].k = key].v

SeqsUpTo(S, n) == UNION {[1..m -> S] : m \in 0..n}

startswith(string, prefix) ==
    /\ Len(string) >= Len(prefix)
    /\ SubSeq(string, 1, Len(prefix)) = prefix

removeprefix_basename(string, prefix) ==
    IF startswith(string, prefix)
    THEN SubSeq(string, Len(string), Len(string))
    ELSE string

removeprefix(string, prefix) ==
    IF startswith(string, prefix)
    THEN SubSeq(string, Len(prefix) + 1, Len(string))
    ELSE string

\* Sequencing: the values of results rs, or the first exception among them, and the
\* continuation F on the value of r unless r raised.
AllOk(rs) == \A i \in DOMAIN rs : rs[i].ok
FirstRaise(rs) == rs[CHOOSE i \in DOMAIN rs : ~rs[i].ok /\ \A j \in 1..(i-1) : rs[j].ok]
Vals(rs) == [i \in DOMAIN rs |-> rs[i].val]
Collect(rs) == IF AllOk(rs) THEN Ok(Vals(rs)) ELSE FirstRaise(rs)
Then(r, F(_)) == IF r.ok THEN F(r.val) ELSE r

-----------------------------------------------------------------------------
(* The artifacts: unit ids, manifest nodes, catalog entries, profiles *)

CUSTOMERS == <<"model", ".", "proj", ".", "customers">>
ORDERS == <<"model", ".", "proj", ".", "orders">>
RAW == <<"source", ".", "proj", ".", "raw">>
COUNTRIES == <<"seed", ".", "proj", ".", "countries">>
NOT_NULL == <<"test", ".", "proj", ".", "not_null_id">>
UNIQUE == <<"test", ".", "proj", ".", "unique_id">>

\* A manifest column {name, data_type} and a catalog column {name, type, comment}.
ManifestColumns ==
    << [name |-> "id", data_type |-> Some("int")],
       [name |-> "email", data_type |-> None] >>

CatalogColumns ==
    << [name |-> "id", type |-> Some("NUMBER"), comment |-> Some("key"), column |-> None],
       [name |-> "email", type |-> None, comment |-> None, column |-> Some("mail")] >>

\* How a manifest node can be malformed: one of the keys the code reads is missing.
NodeShapes == {"good", "no_columns", "no_sql", "no_database"}

\* The shapes of the model nodes of a manifest: CUSTOMERS, an input of ORDERS, in
\* any shape, or ORDERS, an input of no model, without its database.
Shapes(customers, orders) == [customers |-> customers, orders |-> orders]
GoodShapes == Shapes("good", "good")
CustomersShapes == {Shapes(shape, "good") : shape \in NodeShapes}
OrdersShapes == {Shapes("good", "no_database")}
ModelShapes == CustomersShapes \cup OrdersShapes

Node(uid, name, shape, sql, test) ==
    [ unique_id |-> uid,
      database |-> IF shape = "no_database" THEN None ELSE Some(<<"db">>),
      schema |-> Some(<<"public">>),
      name |-> Some(<<name>>),
      columns |-> IF shape = "no_columns" THEN None ELSE Some(ManifestColumns),
      compiled_sql |-> IF shape = "no_sql" THEN None ELSE sql,
      test_metadata |-> test ]

TestMetadata(name, column) ==
    Some([name |-> name, kwargs |-> [column_name |-> column]])

\* manifest.json: nodes, sources and parent_map, as dicts in file order.
Manifest(model_shapes, parents1, parents2) ==
    [ nodes |->
        << Item(CUSTOMERS, Node(CUSTOMERS, "customers", model_shapes.customers,
                                Some("select 1"), None)),
           Item(COUNTRIES, Node(COUNTRIES, "countries", "good", None, None)),
           Item(ORDERS, Node(ORDERS, "orders", model_shapes.orders, Some("select 2"),
                             None)),
           Item(NOT_NULL, Node(NOT_NULL, "not_null_id", "good", Some("select 3"),
                               TestMetadata("not_null", Some("id")))),
           Item(UNIQUE, Node(UNIQUE, "unique_id", "good", Some("select 4"),
                             TestMetadata("unique", None))) >>,
      sources |->
        << Item(RAW, Node(RAW, "raw", "good", None, None)) >>,
      parent_map |->
        << Item(CUSTOMERS, <<RAW, COUNTRIES>>),
           Item(ORDERS, <<CUSTOMERS, RAW>>),
           Item(NOT_NULL, parents1),
           Item(UNIQUE, parents2) >> ]

\* A catalog statistic's 'value': JSON null, a number, or a string that is no number.
NullStat == [kind |-> "null", v |-> 0]
IntStat(n) == [kind |-> "int", v |-> n]
StrStat == [kind |-> "str", v |-> 0]

\* The (bytes, rows) pairs of the checked catalogs.
StatsPairs ==
    { <<IntStat(1024), IntStat(7)>>, <<NullStat, IntStat(7)>>, <<IntStat(1024), NullStat>>,
      <<IntStat(1024), IntStat(0)>>, <<NullStat, NullStat>>, <<StrStat, IntStat(7)>> }

\* The statistics of one catalog node, under the keys of the adapter that wrote it.
Stats(adapter, bytes, rows) ==
    IF adapter = "bigquery"
    THEN << Item("num_bytes", bytes), Item("num_rows", rows) >>
    ELSE << Item("bytes", bytes), Item("row_count", rows) >>

\* catalog.json with one entry, for CUSTOMERS; the other units have none.
Catalog(adapter, bytes, rows) ==
    [ nodes |-> << Item(CUSTOMERS, [columns |-> Some(CatalogColumns),
                                    stats |-> Stats(adapter, bytes, rows)]) >>,
      sources |-> << >> ]

\* dbt_project.yml as __init__ loaded it: the name of the profile to use.
Project == [profile |-> "default"]

\* profile['outputs']: the connection profile of each target.
Outputs ==
    << Item("dev", [type |-> "snowflake", account |-> Some(<<"acct">>)]),
       Item("prod", [type |-> "bigquery", account |-> None]),
       Item("legacy", [type |-> "mysql", account |-> None]) >>

Targets == {Outputs[i].k : i \in DOMAIN Outputs}
Profiles == {Outputs[i].v : i \in DOMAIN Outputs}
Adapters == {Outputs[i].v.type : i \in DOMAIN Outputs}

\* profiles.yml whose profile names default_target as its target.
ProfilesYml(default_target) ==
    << Item(Project.profile, [target |-> default_target, outputs |-> Outputs]) >>

\* profiles.yml[self.profile_name] before parse() has read it.
NoProfileEntry == [target |-> "", outputs |-> << >>]

RunStatuses == {"success", "error", "skipped", "partial"}
TestStatuses == {"pass", "fail"}

RunRecords == [unique_id : {CUSTOMERS, ORDERS}, status : RunStatuses]
TestRecords == [unique_id : {NOT_NULL, UNIQUE}, status : TestStatuses]
ParentLists == SeqsUpTo({CUSTOMERS, ORDERS, RAW, COUNTRIES}, MaxParents)

RunResults(which, results) == [args |-> [which |-> which], results |-> results]

\* manifest and run_result before parse() has read them.
NoManifest == [nodes |-> << >>, sources |-> << >>, parent_map |-> << >>]
NoRunResults == RunResults("", << >>)

\* The ids a test can be grouped under: the models and sources of the manifest.
DatasetIds == {CUSTOMERS, ORDERS, RAW}

\* The keys of assertions, a defaultdict(list): those ids, and None, the model_node of
\* a test that has no model or source among its parents.
AssertionKeys == DatasetIds \cup {None}

-----------------------------------------------------------------------------
(* openlineage.common.utils *)

\* get_from_nullable_chain(catalog, [section, key]): None when any step is missing.
get_from_nullable_chain(source, section, key) ==
    IF Len(source) = 0 THEN None
    ELSE LET d == IF section = "nodes" THEN source[1].nodes ELSE source[1].sources
         IN  IF HasKey(d, key) THEN Some(Lookup(d, key)) ELSE None

\* get_from_multiple_chains(catalog_node, [['stats', key1, 'value'], ['stats', key2,
\* 'value']]): the first chain, in order, that yields a value.
get_from_multiple_chains(catalog_node, key1, key2) ==
    LET stats == catalog_node.stats
        Found(key) == HasKey(stats, key) /\ Lookup(stats, key).kind # "null"
    IN  IF Found(key1) THEN Lookup(stats, key1)
        ELSE IF Found(key2) THEN Lookup(stats, key2)
        ELSE NullStat

\* Python's truth value of a statistic, and int() of it.
Truthy(stat) == (stat.kind = "int" /\ stat.v # 0) \/ stat.kind = "str"
IntCoercible(stat) == stat.kind = "int"

-----------------------------------------------------------------------------
(* Namespace resolution *)

extract_namespace_any_adapter(profile_) ==
    IF profile_.type = "snowflake"
    THEN IF Len(profile_.account) = 0 THEN Raise("KeyError")
         ELSE Ok(<<"snowflake://">> \o profile_.account[1])
    ELSE Ok(<<profile_.type>>)

extract_namespace(profile_) ==
    IF profile_.type = "snowflake"
    THEN IF Len(profile_.account) = 0 THEN Raise("KeyError")
         ELSE Ok(<<"snowflake://">> \o profile_.account[1])
    ELSE IF profile_.type = "bigquery"
    THEN Ok(<<"bigquery">>)
    ELSE Raise("NotImplementedError")

extract_dataset_namespace(profile_) == extract_namespace(profile_)

\* os.environ.get(name, default) evaluates its default before it looks the name up.
extract_job_namespace(profile_) ==
    LET default == extract_namespace(profile_)
    IN  IF ~default.ok THEN default
        ELSE IF Len(environ) > 0 THEN Ok(environ[1])
        ELSE default

-----------------------------------------------------------------------------
(* Datasets and their facets *)

ModelNode(metadata_node, catalog_node) ==
    [metadata_node |-> metadata_node, catalog_node |-> catalog_node]

SchemaField(name, type, description) ==
    [name |-> name, type |-> type, description |-> description]

Dataset(namespace, name, facets) ==
    [namespace |-> namespace, name |-> name, facets |-> facets]

OutputDataset(namespace, name, facets, outputFacets) ==
    [namespace |-> namespace, name |-> name, facets |-> facets,
     outputFacets |-> outputFacets]

extract_metadata_fields(columns) ==
    [i \in DOMAIN columns |->
        SchemaField(columns[i].name, columns[i].data_type, None)]

extract_catalog_fields(columns) ==
    [i \in DOMAIN columns |->
        SchemaField(columns[i].name, columns[i].type, columns[i].column)]

\* (namespace, name, facets) of a node; KeyError when a key it reads is missing.
extract_dataset_data(node, has_facets) ==
    LET meta == node.metadata_node
        cat == node.catalog_node
    IN  IF has_facets /\ Len(meta.columns) = 0 THEN Raise("KeyError")
        ELSE IF has_facets /\ Len(cat) > 0 /\ Len(cat[1].columns) = 0 THEN Raise("KeyError")
        ELSE IF Len(meta.database) = 0 \/ Len(meta.schema) = 0 \/ Len(meta.name) = 0
        THEN Raise("KeyError")
        ELSE Ok([ namespace |-> dataset_namespace,
                  name |-> meta.database[1] \o Dot \o meta.schema[1] \o Dot \o meta.name[1],
                  facets |->
                    IF has_facets
                    THEN << Item("dataSource", [name |-> dataset_namespace,
                                                uri |-> dataset_namespace]),
                            Item("schema", [fields |->
                                IF Len(cat) > 0
                                THEN extract_catalog_fields(cat[1].columns[1])
                                ELSE extract_metadata_fields(meta.columns[1])]) >>
                    ELSE << >> ])

node_to_dataset_always_facets(node, has_facets) ==
    Then(extract_dataset_data(node, TRUE),
         LAMBDA data : Ok(Dataset(data.namespace, data.name, data.facets)))

node_to_dataset(node, has_facets) ==
    Then(extract_dataset_data(node, has_facets),
         LAMBDA data : Ok(Dataset(data.namespace, data.name, data.facets)))

\* `if x: x = int(x)`: ValueError when x is a string that is no number.
int_if_truthy(stat) ==
    IF Truthy(stat) /\ ~IntCoercible(stat) THEN Raise("ValueError") ELSE Ok(stat)

output_statistics_both_counts(bytes, rows) ==
    IF Truthy(bytes) /\ Truthy(rows)
    THEN << Item("outputStatistics", [rowCount |-> rows.v, size |-> Some(bytes.v)]) >>
    ELSE << >>

\* output_facets once bytes and rows went through int(): the facet is built inside
\* `if rows:`, with whatever bytes is.
output_statistics(bytes, rows) ==
    IF Truthy(rows)
    THEN << Item("outputStatistics",
                 [ rowCount |-> rows.v,
                   size |-> IF bytes.kind = "null" THEN None ELSE Some(bytes.v) ]) >>
    ELSE << >>

\* output_facets of a node: empty unless has_facets and the node has a catalog entry.
output_facets_of(node, has_facets) ==
    IF has_facets /\ Len(node.catalog_node) > 0
    THEN Then(int_if_truthy(get_from_multiple_chains(node.catalog_node[1],
                                                     "num_bytes", "bytes")),
         LAMBDA bytes :
         Then(int_if_truthy(get_from_multiple_chains(node.catalog_node[1],
                                                     "num_rows", "row_count")),
         LAMBDA rows : Ok(output_statistics(bytes, rows))))
    ELSE Ok(<< >>)

node_to_output_dataset(node, has_facets) ==
    Then(extract_dataset_data(node, has_facets),
         LAMBDA data :
         Then(output_facets_of(node, has_facets),
         LAMBDA output_facets :
            Ok(OutputDataset(data.namespace, data.name, data.facets, output_facets))))

-----------------------------------------------------------------------------
(* The Event Builder *)

Job(namespace, name, facets) ==
    [namespace |-> namespace, name |-> name, facets |-> facets]

RunEvent(eventType, runId, job, inputs, outputs) ==
    [eventType |-> eventType, run |-> [runId |-> runId], job |-> job,
     inputs |-> inputs, outputs |-> outputs]

DbtRun(status, inputs, output, job_name, namespace, run_id) ==
    [status |-> status, inputs |-> inputs, output |-> output, job_name |-> job_name,
     namespace |-> namespace, run_id |-> run_id]

DbtRunResult(start, complete, fail) ==
    [start |-> start, complete |-> complete, fail |-> fail]

DbtEvents(starts, completes, fails) ==
    [starts |-> starts, completes |-> completes, fails |-> fails]

\* SqlJobFacet(run.output.metadata_node['compiled_sql'])
sql_job_facet(run) ==
    IF Len(run.output) = 0 THEN Raise("AttributeError")
    ELSE IF Len(run.output[1].metadata_node.compiled_sql) = 0 THEN Raise("KeyError")
    ELSE Ok(<< Item("sql", [query |-> run.output[1].metadata_node.compiled_sql[1]]) >>)

\* [self.node_to_dataset(node, has_facets) for node in run.inputs]
input_datasets(run, has_facets) ==
    Collect([i \in DOMAIN run.inputs |-> node_to_dataset(run.inputs[i], has_facets)])

\* [self.node_to_output_dataset(run.output)] if run.output else []
start_outputs(run) ==
    IF Len(run.output) > 0
    THEN Then(node_to_output_dataset(run.output[1], FALSE), LAMBDA output : Ok(<<output>>))
    ELSE Ok(<< >>)

\* The start event: no facets on the job, the inputs or the output.
start_event(run) ==
    Then(input_datasets(run, FALSE),
         LAMBDA inputs :
         Then(start_outputs(run),
         LAMBDA outputs :
            Ok(RunEvent("START", run.run_id, Job(job_namespace, run.job_name, << >>),
                        inputs, outputs))))

complete_event_no_outputs(run) ==
    Then(sql_job_facet(run),
         LAMBDA sql :
         Then(input_datasets(run, TRUE),
         LAMBDA inputs :
         Then(node_to_output_dataset(run.output[1], TRUE),
         LAMBDA output :
            Ok(RunEvent("COMPLETE", run.run_id, Job(job_namespace, run.job_name, sql),
                        inputs, << >>)))))

complete_event(run) ==
    Then(sql_job_facet(run),
         LAMBDA sql :
         Then(input_datasets(run, TRUE),
         LAMBDA inputs :
         Then(node_to_output_dataset(run.output[1], TRUE),
         LAMBDA output :
            Ok(RunEvent("COMPLETE", run.run_id, Job(job_namespace, run.job_name, sql),
                        inputs, <<output>>)))))

fail_event_with_output(run) ==
    Then(sql_job_facet(run),
         LAMBDA sql :
         Then(input_datasets(run, TRUE),
         LAMBDA inputs :
         Then(node_to_output_dataset(run.output[1], TRUE),
         LAMBDA output :
            Ok(RunEvent("FAIL", run.run_id, Job(job_namespace, run.job_name, sql),
                        inputs, <<output>>)))))

fail_event(run) ==
    Then(sql_job_facet(run),
         LAMBDA sql :
         Then(input_datasets(run, TRUE),
         LAMBDA inputs :
            Ok(RunEvent("FAIL", run.run_id, Job(job_namespace, run.job_name, sql),
                        inputs, << >>))))

_to_openlineage_events_skipped_start(run) ==
    Then(start_event(run),
         LAMBDA start :
            IF run.status = "skipped"
            THEN Ok(Some(DbtRunResult(start, None, None)))
            ELSE IF run.status = "success"
            THEN Then(complete_event(run),
                 LAMBDA complete : Ok(Some(DbtRunResult(start, Some(complete), None))))
            ELSE IF run.status = "error"
            THEN Then(fail_event(run),
                 LAMBDA fail : Ok(Some(DbtRunResult(start, None, Some(fail)))))
            ELSE Raise("ValueError"))

\* Ok(None) for a skipped run, Ok(Some(DbtRunResult)) for success and error.
_to_openlineage_events(run) ==
    IF run.status = "skipped" THEN Ok(None)
    ELSE Then(start_event(run),
         LAMBDA start :
            IF run.status = "success"
            THEN Then(complete_event(run),
                 LAMBDA complete : Ok(Some(DbtRunResult(start, Some(complete), None))))
            ELSE IF run.status = "error"
            THEN Then(fail_event(run),
                 LAMBDA fail : Ok(Some(DbtRunResult(start, None, Some(fail)))))
            ELSE Raise("ValueError"))

\* except Exception as e: None under skip_errors, else raise ValueError(e)
except_exception(results) ==
    IF results.ok THEN results
    ELSE IF skip_errors THEN Ok(None)
    ELSE RaiseFrom("ValueError", results.exc)

to_openlineage_events(run) == except_exception(_to_openlineage_events(run))

-----------------------------------------------------------------------------
(* parse_run: the Run Assembler *)

IsModel(name) == startswith(name, <<"model", ".">>)
IsSource(name) == startswith(name, <<"source", ".">>)
IsTest(name) == startswith(name, <<"test", ".">>)

IsModelOrTestItem(item) == IsModel(item.k) \/ IsTest(item.k)
IsModelOrSource(name) == IsModel(name) \/ IsSource(name)

\* parse(): nodes, the manifest's nodes that are models or tests.
nodes == SelectSeq(manifest.nodes, IsModelOrTestItem)

\* The ModelNode of one parent, looked up in nodes or in manifest['sources'].
input_node(node) ==
    IF IsModel(node)
    THEN IF HasKey(nodes, node)
         THEN Ok(ModelNode(Lookup(nodes, node),
                           get_from_nullable_chain(catalog, "nodes", node)))
         ELSE Raise("KeyError")
    ELSE IF HasKey(manifest.sources, node)
         THEN Ok(ModelNode(Lookup(manifest.sources, node),
                           get_from_nullable_chain(catalog, "sources", node)))
         ELSE Raise("KeyError")

\* inputs: the ModelNodes of the record's parents that are models or sources.
run_inputs(run) ==
    LET parents == SelectSeq(Lookup(manifest.parent_map, run.unique_id), IsModelOrSource)
    IN  Collect([j \in DOMAIN parents |-> input_node(parents[j])])

\* The DbtRun of one record of run_results['results'], with a fresh run_id.
dbt_run(run, run_id) ==
    IF ~HasKey(manifest.parent_map, run.unique_id) THEN Raise("KeyError")
    ELSE Then(run_inputs(run),
         LAMBDA inputs :
            IF ~HasKey(nodes, run.unique_id) THEN Raise("KeyError")
            ELSE LET output_node == Lookup(nodes, run.unique_id)
                 IN  IF Len(output_node.database) = 0 \/ Len(output_node.schema) = 0
                     THEN Raise("KeyError")
                     ELSE Ok(DbtRun(
                             run.status,
                             inputs,
                             Some(ModelNode(output_node,
                                  get_from_nullable_chain(catalog, "nodes", run.unique_id))),
                             output_node.database[1] \o Dot \o output_node.schema[1]
                                 \o Dot \o removeprefix(run.unique_id, <<"model", ".">>),
                             dataset_namespace,
                             run_id)))

-----------------------------------------------------------------------------
(* parse_test: the Test-Assertion Aggregator *)

Assertion(assertion, success, column) ==
    [assertion |-> assertion, success |-> success, column |-> column]

RECURSIVE first_model_node(_, _)
first_model_node(parents, model_node) ==
    IF Len(parents) = 0 THEN model_node
    ELSE IF IsModelOrSource(Head(parents)) THEN Some(Head(parents))
    ELSE first_model_node(Tail(parents), model_node)

model_node_of_first_parent(parents) == first_model_node(parents, None)

\* for node in parent_map[...]: if node is a model or a source: model_node = node
RECURSIVE model_node_loop(_, _)
model_node_loop(parents, model_node) ==
    IF Len(parents) = 0 THEN model_node
    ELSE model_node_loop(Tail(parents),
                         IF IsModelOrSource(Head(parents))
                         THEN Some(Head(parents))
                         ELSE model_node)

model_node_of(parents) == model_node_loop(parents, None)

\* One test record: Ok([model_node, assertion]), or the exception it raises.  The
\* ValueError of a test without model_node is raised after its assertion has been
\* appended under None: that raise carries what was appended.
test_assertion(run) ==
    IF ~HasKey(nodes, run.unique_id) THEN Raise("KeyError")
    ELSE IF ~HasKey(manifest.parent_map, run.unique_id) THEN Raise("KeyError")
    ELSE LET test_node == Lookup(nodes, run.unique_id)
             model_node == model_node_of(Lookup(manifest.parent_map, run.unique_id))
         IN  IF Len(test_node.test_metadata) = 0 THEN Raise("KeyError")
             ELSE IF Len(model_node) = 0
             THEN [ Raise("ValueError") EXCEPT !.val =
                       Some([ model_node |-> None,
                              assertion |-> Assertion(
                                  test_node.test_metadata[1].name,
                                  run.status = "pass",
                                  test_node.test_metadata[1].kwargs.column_name) ]) ]
             ELSE Ok([ model_node |-> model_node[1],
                       assertion |-> Assertion(
                           test_node.test_metadata[1].name,
                           run.status = "pass",
                           test_node.test_metadata[1].kwargs.column_name) ])

\* What the first loop of parse_test appended: the [model_node, assertion] of the
\* first n records, and of record n + 1 when it raised after appending.
Appended(rs, n) ==
    [i \in 1..n |-> rs[i].val] \o (IF n < Len(rs) THEN rs[n + 1].val ELSE << >>)

\* assertions after the first n records got through: each assertion appended to its
\* model_node's list, in the order of the records.
AssertionsOf(rs, n) ==
    [name \in AssertionKeys |->
        LET IsUnder(a) == a.model_node = name
            under == SelectSeq(Appended(rs, n), IsUnder)
        IN  [i \in DOMAIN under |-> under[i].assertion]]

\* The manifest['nodes'] items the second loop of parse_test emits events for.
validated_items(assertions_) ==
    LET IsValidatedItem(item) ==
            /\ IsModel(item.k) \/ IsSource(item.k)
            /\ Len(assertions_[item.k]) > 0
    IN  SelectSeq(manifest.nodes, IsValidatedItem)

\* The start and the complete event of one validated node, sharing run_id.
test_events(item, run_id, assertions_) ==
    Then(extract_dataset_data(ModelNode(item.v, None), FALSE),
         LAMBDA data :
            LET node == item.v
                job_name == node.database[1] \o Dot \o node.schema[1] \o Dot
                            \o removeprefix(node.unique_id, <<"test", ".">>)
                job == Job(job_namespace, job_name, << >>)
            IN  Ok([ start |->
                       RunEvent("START", run_id, job,
                                << Dataset(data.namespace, data.name, << >>) >>,
                                << >>),
                     complete |->
                       RunEvent("COMPLETE", run_id, job,
                                << Dataset(data.namespace, data.name,
                                       << Item("dataQualityAssertions",
                                               [assertions |-> assertions_[item.k]]) >>) >>,
                                << >>) ]))

-----------------------------------------------------------------------------
(* The processor *)

CatalogChoices(adapter) ==
    {None} \cup {Some(Catalog(adapter, pair[1], pair[2])) : pair \in StatsPairs}

\* catalog.json as it can be on disk whatever the profile is: missing, or written
\* under the statistics keys of one adapter or of the other.
CatalogsOnDisk ==
    { None, Some(Catalog("snowflake", IntStat(1024), IntStat(7))),
      Some(Catalog("bigquery", IntStat(1024), IntStat(7))) }

\* manifest.json, run_results.json and catalog.json on disk at one call of parse().
Artifacts(which, results, model_shapes, catalog_, parents) ==
    [ manifest |-> Manifest(model_shapes, parents, <<CUSTOMERS>>),
      run_results |-> RunResults(which, results),
      catalog |-> catalog_ ]

\* Python's `not x` of an optional string: x is None or the empty string.
Falsy(x) == Len(x) = 0 \/ x[1] = ""

Exception(type, cause) == Some([type |-> type, cause |-> cause])

\* __init__(profile_name, target, skip_errors), with the artifacts not yet read.
Construct(profile_name_, target_) ==
    /\ skip_errors \in BOOLEAN
    /\ environ \in {None, Some(<<"prod">>)}
    /\ dataset_namespace = << >>
    /\ job_namespace = << >>
    /\ profile_name = profile_name_
    /\ target = target_
    /\ init_args = [profile_name |-> profile_name_, target |-> target_]
    /\ calls = 0
    /\ pc = "init"
    /\ profile_entry = NoProfileEntry
    /\ profile = None
    /\ manifest = NoManifest
    /\ run_results = NoRunResults
    /\ catalog = None
    /\ runs = << >>
    /\ idx = 1
    /\ start_events = << >>
    /\ complete_events = << >>
    /\ fail_events = << >>
    /\ assertions = [name \in AssertionKeys |-> << >>]
    /\ model_nodes = << >>
    /\ returned = None
    /\ error = None
    /\ uuid_counter = 0

Init == Construct(None, None)

\* parse() reads manifest.json, run_results.json and catalog.json, the first thing
\* it does, whatever the command was.
LoadArtifacts(files) ==
    /\ manifest' = files.manifest
    /\ run_results' = files.run_results
    /\ catalog' = files.catalog

\* An exception leaves parse() before parse_run or parse_test is called; the
\* artifacts have been read by then.
RaisedInParse(exc) ==
    /\ pc' = "raised"
    /\ error' = Exception(exc.exc, exc.cause)

\* parse() from the namespaces to its dispatch on run_result['args']['which'].
Dispatch(profile_, which) ==
    LET ds == extract_dataset_namespace(profile_)
        job == extract_job_namespace(profile_)
    IN  IF ~ds.ok
        THEN /\ RaisedInParse(ds)
             /\ UNCHANGED <<dataset_namespace, job_namespace>>
        ELSE IF ~job.ok
        THEN /\ RaisedInParse(job)
             /\ dataset_namespace' = ds.val
             /\ UNCHANGED job_namespace
        ELSE /\ dataset_namespace' = ds.val
             /\ job_namespace' = job.val
             /\ IF which = "run"
                THEN pc' = "parse_run" /\ error' = None
                ELSE IF which = "test"
                THEN pc' = "parse_test" /\ error' = None
                ELSE RaisedInParse(Raise("ValueError"))

\* One call of parse() up to its dispatch.  The artifacts are those on disk at the
\* call; self.profile_name and self.target are resolved only while they are falsy,
\* and the namespaces before any artifact is used.  The locals start afresh.
ParseCall(targets, files) ==
    /\ calls' = calls + 1
    /\ \E default_target \in targets :
        LET name_ == IF Falsy(profile_name) THEN Some(Project.profile) ELSE profile_name
            yml == ProfilesYml(default_target)
        IN  /\ LoadArtifacts(files)
            /\ profile_name' = name_
            /\ IF ~HasKey(yml, name_[1])
               THEN /\ RaisedInParse(Raise("KeyError"))
                    /\ profile_entry' = NoProfileEntry
                    /\ profile' = None
                    /\ UNCHANGED <<target, dataset_namespace, job_namespace>>
               ELSE LET entry == Lookup(yml, name_[1])
                        target_ == IF Falsy(target) THEN Some(entry.target) ELSE target
                    IN  /\ profile_entry' = entry
                        /\ target' = target_
                        /\ IF ~HasKey(entry.outputs, target_[1])
                           THEN /\ RaisedInParse(Raise("KeyError"))
                                /\ profile' = None
                                /\ UNCHANGED <<dataset_namespace, job_namespace>>
                           ELSE /\ profile' = Some(Lookup(entry.outputs, target_[1]))
                                /\ Dispatch(Lookup(entry.outputs, target_[1]),
                                            files.run_results.args.which)
    /\ runs' = << >>
    /\ idx' = 1
    /\ start_events' = << >>
    /\ complete_events' = << >>
    /\ fail_events' = << >>
    /\ assertions' = [name \in AssertionKeys |-> << >>]
    /\ model_nodes' = << >>
    /\ returned' = None
    /\ UNCHANGED <<skip_errors, environ, init_args, uuid_counter>>

\* parse() on any of the artifacts made of the given parts, whatever the command.
ParseOn(which, results_, shapes, catalogs_, parents_) ==
    \E results \in results_, model_shapes \in shapes, catalog_ \in catalogs_,
       parents \in parents_ :
        ParseCall(Targets, Artifacts(which, results, model_shapes, catalog_, parents))

\* parse() of a processor that has not parsed yet.  The artifacts are those of a run
\* command over every shape of CUSTOMERS and every statistics pair, over ORDERS
\* without database, and over the parents of a test and the catalogs of both
\* adapters; of a test command over every list of parents, and over every node
\* shape and catalog; of a seed command, which parse() does not know.
Parse ==
    /\ pc = "init"
    /\ \/ ParseOn("run", SeqsUpTo(RunRecords, MaxRuns), CustomersShapes,
                   CatalogChoices("snowflake"), {<<CUSTOMERS>>})
       \/ ParseOn("run", SeqsUpTo(RunRecords, MaxRuns), OrdersShapes, {None},
                   {<<CUSTOMERS>>})
       \/ ParseOn("run", SeqsUpTo(RunRecords, 1), {GoodShapes}, CatalogsOnDisk,
                   ParentLists)
       \/ ParseOn("test", SeqsUpTo(TestRecords, MaxTests), {GoodShapes}, {None},
                   ParentLists)
       \/ ParseOn("test", SeqsUpTo(TestRecords, MaxTests), ModelShapes, CatalogsOnDisk,
                   {<<CUSTOMERS, ORDERS>>})
       \/ ParseOn("seed", SeqsUpTo(RunRecords, 1), ModelShapes, CatalogsOnDisk,
                   {<<CUSTOMERS>>})

\* How many leading results of rs the loop gets through: all, or those before the
\* first that raises.
Passed(rs) ==
    IF AllOk(rs) THEN Len(rs)
    ELSE (CHOOSE i \in DOMAIN rs : ~rs[i].ok /\ \A j \in 1..(i-1) : rs[j].ok) - 1

HasResult(r) == Len(r.val) > 0
HasComplete(r) == Len(r.val[1].complete) > 0
HasFailOnly(r) == Len(r.val[1].complete) = 0 /\ Len(r.val[1].fail) > 0

\* parse_run, second loop over the results of to_openlineage_events, one per run:
\* a run's events are appended, or the run is passed over (skipped, or failed under
\* skip_errors), or its failure leaves parse() with nothing returned.
TranslateRuns(results) ==
    LET kept == SelectSeq(SubSeq(results, 1, Passed(results)), HasResult)
        completed == SelectSeq(kept, HasComplete)
        failed == SelectSeq(kept, HasFailOnly)
    IN  /\ start_events' = [i \in DOMAIN kept |-> kept[i].val[1].start]
        /\ complete_events' = [i \in DOMAIN completed |-> completed[i].val[1].complete[1]]
        /\ fail_events' = [i \in DOMAIN failed |-> failed[i].val[1].fail[1]]
        /\ idx' = Passed(results) + 1
        /\ IF AllOk(results)
           THEN /\ returned' = Some(DbtEvents(start_events', complete_events',
                                              fail_events'))
                /\ pc' = "done"
                /\ UNCHANGED error
           ELSE /\ pc' = "raised"
                /\ error' = Exception(FirstRaise(results).exc, FirstRaise(results).cause)
                /\ UNCHANGED returned

\* parse_run, first loop over the results of dbt_run, one per record: each DbtRun is
\* appended to runs and draws a uuid4 run_id.  A KeyError of a record leaves parse()
\* with the runs assembled before it, whatever skip_errors says.
AssembleRuns(rs) ==
    /\ runs' = [i \in 1..Passed(rs) |-> rs[i].val]
    /\ uuid_counter' = uuid_counter + Passed(rs)
    /\ IF AllOk(rs)
       THEN \E results \in {[i \in DOMAIN runs' |-> to_openlineage_events(runs'[i])]} :
                TranslateRuns(results)
       ELSE /\ pc' = "raised"
            /\ error' = Exception(FirstRaise(rs).exc, "")
            /\ UNCHANGED <<idx, start_events, complete_events, fail_events, returned>>

ParseRun ==
    /\ pc = "parse_run"
    /\ \E rs \in {[i \in DOMAIN run_results.results |->
                        dbt_run(run_results.results[i], uuid_counter + i)]} :
            AssembleRuns(rs)
    /\ UNCHANGED <<skip_errors, environ, dataset_namespace, job_namespace, profile,
                   manifest, run_results, catalog, assertions, model_nodes,
                   profile_name, target, init_args, calls, profile_entry>>

\* parse_test, second loop over the results of test_events, one per item of
\* manifest['nodes'] that has assertions, and return: a start and a complete event
\* with a uuid4 run_id of their own are appended for each.  A KeyError of an item
\* leaves parse() with the events of the items before it.
EmitTestEvents(rs) ==
    /\ start_events' = [i \in 1..Passed(rs) |-> rs[i].val.start]
    /\ complete_events' = [i \in 1..Passed(rs) |-> rs[i].val.complete]
    /\ uuid_counter' = uuid_counter + Passed(rs)
    /\ IF AllOk(rs)
       THEN /\ returned' = Some(DbtEvents(start_events', complete_events', << >>))
            /\ pc' = "done"
            /\ UNCHANGED error
       ELSE /\ pc' = "raised"
            /\ error' = Exception(FirstRaise(rs).exc, "")
            /\ UNCHANGED returned

\* parse_test, first loop over the results of test_assertion, one per record: each
\* assertion goes under its model_node, None included; a record that raises leaves
\* parse().
CollectAssertions(rs) ==
    /\ idx' = Passed(rs) + 1
    /\ model_nodes' = [i \in 1..Passed(rs) |-> rs[i].val.model_node]
    /\ assertions' = AssertionsOf(rs, Passed(rs))
    /\ IF AllOk(rs)
       THEN \E events \in {[i \in DOMAIN validated_items(assertions') |->
                                test_events(validated_items(assertions')[i],
                                            uuid_counter + i, assertions')]} :
                EmitTestEvents(events)
       ELSE /\ pc' = "raised"
            /\ error' = Exception(FirstRaise(rs).exc, "")
            /\ UNCHANGED <<start_events, complete_events, returned, uuid_counter>>

ParseTest ==
    /\ pc = "parse_test"
    /\ \E rs \in {[i \in DOMAIN run_results.results |->
                        test_assertion(run_results.results[i])]} :
            CollectAssertions(rs)
    /\ UNCHANGED <<skip_errors, environ, dataset_namespace, job_namespace, profile,
                   manifest, run_results, catalog, runs, fail_events,
                   profile_name, target, init_args, calls, profile_entry>>

Next ==
    \/ Parse
    \/ ParseRun
    \/ ParseTest

Spec == Init /\ [][Next]_vars

-----------------------------------------------------------------------------
(* Successive parse() calls on one processor *)

\* The artifacts on disk at the calls: one record each, well-formed nodes, no catalog.
RepeatRunChoices ==
    { <<[unique_id |-> CUSTOMERS, status |-> "success"]>>,
      <<[unique_id |-> ORDERS, status |-> "error"]>> }
RepeatTestChoices == { <<[unique_id |-> NOT_NULL, status |-> "pass"]>> }
\* __init__ with profile_name left out or naming a profile profiles.yml has not, and
\* with the target left out, empty, given and in the profile, given and not in it.
InitRepeat ==
    \E profile_name_ \in {None, Some("other")},
       target_ \in {None, Some(""), Some("dev"), Some("ci")} :
        Construct(profile_name_, target_)

\* parse() called on a processor that is not inside a call: the first call or a
\* later one, after the earlier call returned or raised.
ParseRepeat ==
    /\ pc \in {"init", "done", "raised"}
    /\ calls < MaxCalls
    /\ \/ ParseOn("run", RepeatRunChoices, {GoodShapes}, {None}, {<<CUSTOMERS>>})
       \/ ParseOn("test", RepeatTestChoices, {GoodShapes}, {None}, {<<CUSTOMERS>>})

NextRepeat ==
    \/ ParseRepeat
    \/ ParseRun
    \/ ParseTest

SpecRepeat == InitRepeat /\ [][NextRepeat]_vars

-----------------------------------------------------------------------------
(* What the claims speak of *)

Which == run_results.args.which

\* The first loop of parse_run got through every record, so the second has run.
Assembled == Len(runs) = Len(run_results.results)

\* The runs the Event Builder was applied to: those the second loop of parse_run
\* got through and, when it raised, the run it raised on.
Handled ==
    IF Assembled
    THEN {i \in DOMAIN runs : i < idx \/ (pc = "raised" /\ i = idx)}
    ELSE {}

Count(events, run_id) ==
    Cardinality({k \in DOMAIN events : events[k].run.runId = run_id})

ReturnedCount(run_id) ==
    IF Len(returned) = 0 THEN 0
    ELSE Count(returned[1].starts, run_id) + Count(returned[1].completes, run_id)
         + Count(returned[1].fails, run_id)

HasFacet(facets, name) == HasKey(facets, name)

\* Node data complete enough for the events of a run to be built, read off the
\* manifest and catalog entries alone.
NodeNamed(node) ==
    /\ Len(node.metadata_node.database) > 0
    /\ Len(node.metadata_node.schema) > 0
    /\ Len(node.metadata_node.name) > 0

NodeHasColumns(node) ==
    /\ Len(node.metadata_node.columns) > 0
    /\ Len(node.catalog_node) > 0 => Len(node.catalog_node[1].columns) > 0

StatsNumeric(node) ==
    \/ Len(node.catalog_node) = 0
    \/ \A k \in DOMAIN node.catalog_node[1].stats :
            node.catalog_node[1].stats[k].v.kind # "str"

InputsDescribed(run) ==
    \A k \in DOMAIN run.inputs : NodeNamed(run.inputs[k]) /\ NodeHasColumns(run.inputs[k])

HasSql(run) ==
    /\ Len(run.output) > 0
    /\ Len(run.output[1].metadata_node.compiled_sql) > 0

WellFormedSuccess(run) ==
    /\ InputsDescribed(run)
    /\ HasSql(run)
    /\ NodeNamed(run.output[1])
    /\ NodeHasColumns(run.output[1])
    /\ StatsNumeric(run.output[1])

WellFormedError(run) ==
    /\ InputsDescribed(run)
    /\ HasSql(run)
    /\ NodeNamed(run.output[1])

TranslationFails(run) ==
    CASE run.status = "skipped" -> FALSE
      [] run.status = "success" -> ~WellFormedSuccess(run)
      [] run.status = "error" -> ~WellFormedError(run)
      [] OTHER -> TRUE

\* parse_run was called and has ended: the command is run and the profile's adapter
\* is one the namespaces are resolved for.
RunParsed ==
    /\ Which = "run"
    /\ pc \in {"done", "raised"}
    /\ Len(profile) > 0
    /\ profile[1].type \in {"snowflake", "bigquery"}

\* The node of record i lacks a key its job name is put together from.
OutputNodeOf(i) == Lookup(manifest.nodes, run_results.results[i].unique_id)
Unassemblable(i) ==
    Len(OutputNodeOf(i).database) = 0 \/ Len(OutputNodeOf(i).schema) = 0
AssemblyFails == \E i \in DOMAIN run_results.results : Unassemblable(i)

\* parse() ended in an unwrapped KeyError with no event built and nothing returned.
AbortedUnwrapped ==
    /\ pc = "raised"
    /\ error = Exception("KeyError", "")
    /\ Len(returned) = 0
    /\ Len(start_events) = 0
    /\ Len(complete_events) = 0
    /\ Len(fail_events) = 0

\* No event carries the run id of run i, built or returned.
NoEventOf(i) ==
    /\ Count(start_events, runs[i].run_id) = 0
    /\ Count(complete_events, runs[i].run_id) = 0
    /\ Count(fail_events, runs[i].run_id) = 0
    /\ ReturnedCount(runs[i].run_id) = 0

\* parse() raised at run i: ValueError wrapping the cause, nothing returned.
AbortedAt(i) ==
    /\ pc = "raised"
    /\ idx = i
    /\ Len(returned) = 0
    /\ Len(error) > 0
    /\ error[1].type = "ValueError"
    /\ error[1].cause \in {"KeyError", "ValueError"}

\* The run failed to translate: no event of it, and it was passed over under
\* skip_errors, or parse() raised at it.
FailedTranslation(i) ==
    /\ NoEventOf(i)
    /\ IF skip_errors THEN pc = "done" ELSE AbortedAt(i)

-----------------------------------------------------------------------------
(* C1: a record with status "skipped" adds no event for its run to start_events,  *)
(* complete_events or fail_events, nor to the DbtEvents returned, whatever the    *)
(* other records of the results are.                                              *)
C1_SkippedRunAddsNoEvent ==
    \A i \in DOMAIN runs :
        run_results.results[i].status = "skipped" =>
            /\ Count(start_events, runs[i].run_id) = 0
            /\ Count(complete_events, runs[i].run_id) = 0
            /\ Count(fail_events, runs[i].run_id) = 0
            /\ ReturnedCount(runs[i].run_id) = 0

\* parse_run returned the events of a success run that stands beside a skipped one.
C1_Witness ==
    /\ pc = "done"
    /\ \E i, j \in DOMAIN runs :
        /\ run_results.results[i].status = "skipped"
        /\ run_results.results[j].status = "success"
        /\ ReturnedCount(runs[j].run_id) = 2

(* C2, as claimed: every success run gets exactly one start and one complete      *)
(* event (no fail event) with its run id, and the complete event's output list is *)
(* non-empty iff the run has an output node.                                      *)
C2_EverySuccessRunHasItsPair ==
    \A i \in Handled :
        runs[i].status = "success" =>
            /\ Count(start_events, runs[i].run_id) = 1
            /\ Count(complete_events, runs[i].run_id) = 1
            /\ Count(fail_events, runs[i].run_id) = 0
            /\ \A k \in DOMAIN complete_events :
                complete_events[k].run.runId = runs[i].run_id =>
                    (Len(complete_events[k].outputs) > 0 <=> Len(runs[i].output) > 0)

(* C2, amended: a success run the Event Builder is applied to gets exactly one     *)
(* start and one complete event (no fail event) with its run id, the complete     *)
(* event holding the run's output dataset, when its node data is complete;        *)
(* otherwise it gets no event at all, start included, and is passed over under    *)
(* skip_errors or makes parse raise ValueError wrapping the cause and return      *)
(* nothing, the later runs left untranslated.  When the node of any record lacks  *)
(* database or schema the builder is applied to no run: parse raises an unwrapped *)
(* KeyError while it assembles the runs, whatever skip_errors is, with no event.  *)
C2_SuccessRunHasItsPairOrNothing ==
    RunParsed =>
        IF AssemblyFails
        THEN AbortedUnwrapped
        ELSE /\ Assembled
             /\ (skip_errors \/ pc = "done") => Handled = DOMAIN runs
             /\ \A i \in DOMAIN runs :
                    runs[i].status = "success" =>
                        IF i \notin Handled THEN NoEventOf(i) /\ pc = "raised"
                        ELSE IF ~WellFormedSuccess(runs[i]) THEN FailedTranslation(i)
                        ELSE /\ Count(start_events, runs[i].run_id) = 1
                             /\ Count(complete_events, runs[i].run_id) = 1
                             /\ Count(fail_events, runs[i].run_id) = 0
                             /\ pc = "done" => ReturnedCount(runs[i].run_id) = 2
                             /\ \A k \in DOMAIN complete_events :
                                    complete_events[k].run.runId = runs[i].run_id =>
                                        /\ Len(complete_events[k].outputs) = 1
                                        /\ Len(runs[i].output) > 0

\* Under skip_errors parse_run returned the pair of a well-formed success run and
\* passed over a success run whose node data is incomplete.
C2_Witness ==
    /\ pc = "done"
    /\ skip_errors
    /\ \E i, j \in Handled :
        /\ runs[i].status = "success"
        /\ WellFormedSuccess(runs[i])
        /\ ReturnedCount(runs[i].run_id) = 2
        /\ \E k \in DOMAIN complete_events :
            /\ complete_events[k].run.runId = runs[i].run_id
            /\ Len(complete_events[k].outputs) = 1
        /\ runs[j].status = "success"
        /\ ~WellFormedSuccess(runs[j])
        /\ NoEventOf(j)

(* C3, as claimed: every error run gets exactly one start and one fail event (no  *)
(* complete event) with its run id, and the fail event's output list is empty.    *)
C3_EveryErrorRunHasItsPair ==
    \A i \in Handled :
        runs[i].status = "error" =>
            /\ Count(start_events, runs[i].run_id) = 1
            /\ Count(fail_events, runs[i].run_id) = 1
            /\ Count(complete_events, runs[i].run_id) = 0
            /\ \A k \in DOMAIN fail_events :
                fail_events[k].run.runId = runs[i].run_id =>
                    Len(fail_events[k].outputs) = 0

(* C3, amended: an error run the Event Builder is applied to gets exactly one      *)
(* start and one fail event (no complete event) with its run id, the fail event's *)
(* output list empty, when its node data is complete; otherwise it gets no event  *)
(* at all, start included, and is passed over under skip_errors or makes parse    *)
(* raise ValueError wrapping the cause and return nothing.  When the node of any  *)
(* record lacks database or schema the builder is applied to no run: parse raises *)
(* an unwrapped KeyError while it assembles the runs, whatever skip_errors is.    *)
C3_ErrorRunHasItsPairOrNothing ==
    RunParsed =>
        IF AssemblyFails
        THEN AbortedUnwrapped
        ELSE /\ Assembled
             /\ (skip_errors \/ pc = "done") => Handled = DOMAIN runs
             /\ \A i \in DOMAIN runs :
                    runs[i].status = "error" =>
                        IF i \notin Handled THEN NoEventOf(i) /\ pc = "raised"
                        ELSE IF ~WellFormedError(runs[i]) THEN FailedTranslation(i)
                        ELSE /\ Count(start_events, runs[i].run_id) = 1
                             /\ Count(fail_events, runs[i].run_id) = 1
                             /\ Count(complete_events, runs[i].run_id) = 0
                             /\ pc = "done" => ReturnedCount(runs[i].run_id) = 2
                             /\ Len(runs[i].output) > 0
                             /\ \A k \in DOMAIN fail_events :
                                    fail_events[k].run.runId = runs[i].run_id =>
                                        Len(fail_events[k].outputs) = 0

\* Under skip_errors parse_run returned the pair of a well-formed error run and
\* passed over an error run whose node data is incomplete.
C3_Witness ==
    /\ pc = "done"
    /\ skip_errors
    /\ \E i, j \in Handled :
        /\ runs[i].status = "error"
        /\ WellFormedError(runs[i])
        /\ Len(runs[i].output) > 0
        /\ Count(fail_events, runs[i].run_id) = 1
        /\ ReturnedCount(runs[i].run_id) = 2
        /\ runs[j].status = "error"
        /\ ~WellFormedError(runs[j])
        /\ NoEventOf(j)

(* C4: in parse_run no start event carries a sql facet on its job or a schema or  *)
(* dataSource facet on a dataset; every complete and fail event carries sql on    *)
(* its job and schema and dataSource on each input, and every complete event on   *)
(* its output dataset, of which it has one.                                       *)
Bare(dataset) ==
    ~HasFacet(dataset.facets, "schema") /\ ~HasFacet(dataset.facets, "dataSource")

Rich(dataset) ==
    HasFacet(dataset.facets, "schema") /\ HasFacet(dataset.facets, "dataSource")

C4_FacetsOnlyOnTerminalEvents ==
    Which = "run" =>
        /\ \A k \in DOMAIN start_events :
            /\ ~HasFacet(start_events[k].job.facets, "sql")
            /\ \A d \in DOMAIN start_events[k].inputs : Bare(start_events[k].inputs[d])
            /\ \A d \in DOMAIN start_events[k].outputs : Bare(start_events[k].outputs[d])
        /\ \A k \in DOMAIN complete_events :
            /\ HasFacet(complete_events[k].job.facets, "sql")
            /\ \A d \in DOMAIN complete_events[k].inputs : Rich(complete_events[k].inputs[d])
            /\ Len(complete_events[k].outputs) = 1
            /\ \A d \in DOMAIN complete_events[k].outputs :
                    Rich(complete_events[k].outputs[d])
        /\ \A k \in DOMAIN fail_events :
            /\ HasFacet(fail_events[k].job.facets, "sql")
            /\ \A d \in DOMAIN fail_events[k].inputs : Rich(fail_events[k].inputs[d])

\* parse_run returned a start, a complete and a fail event that have inputs.
C4_Witness ==
    /\ pc = "done"
    /\ Which = "run"
    /\ \E k \in DOMAIN start_events : Len(start_events[k].inputs) > 0
    /\ \E k \in DOMAIN complete_events : Len(complete_events[k].inputs) > 0
    /\ \E k \in DOMAIN fail_events : Len(fail_events[k].inputs) > 0

(* C5, as claimed: when the translation of a run fails (a status other than       *)
(* success, error, skipped, or node data missing what the run or its events       *)
(* need), under skip_errors parse does not raise, that run has no event and every *)
(* other run has the events of its status; without skip_errors parse raises an    *)
(* error wrapping the cause at the first such run and returns nothing, and it     *)
(* returns only when no run fails.                                                *)
EventsOfStatus(run) ==
    LET starts == Count(start_events, run.run_id)
        completes == Count(complete_events, run.run_id)
        fails == Count(fail_events, run.run_id)
    IN  CASE TranslationFails(run) \/ run.status = "skipped" ->
                starts = 0 /\ completes = 0 /\ fails = 0
          [] run.status = "success" -> starts = 1 /\ completes = 1 /\ fails = 0
          [] OTHER -> starts = 1 /\ completes = 0 /\ fails = 1

\* Record i is one whose run fails: in being assembled, or in being translated.
RecordFails(i) ==
    \/ Unassemblable(i)
    \/ i \in DOMAIN runs /\ TranslationFails(runs[i])

C5_FailureIsolation ==
    (RunParsed /\ Len(run_results.results) > 0) =>
        IF skip_errors
        THEN /\ pc = "done"
             /\ Len(error) = 0
             /\ Assembled
             /\ \A i \in DOMAIN runs :
                    /\ EventsOfStatus(runs[i])
                    /\ ReturnedCount(runs[i].run_id) =
                            IF TranslationFails(runs[i]) \/ runs[i].status = "skipped"
                            THEN 0 ELSE 2
        ELSE IF \E i \in DOMAIN run_results.results : RecordFails(i)
        THEN /\ pc = "raised"
             /\ Len(returned) = 0
             /\ Len(error) > 0
             /\ error[1].type = "ValueError"
             /\ error[1].cause \in {"KeyError", "ValueError"}
             /\ RecordFails(idx)
             /\ \A i \in 1..(idx - 1) : ~RecordFails(i)
        ELSE pc = "done" /\ Len(returned) > 0

\* Under skip_errors parse raised an unwrapped KeyError on the second record, whose
\* node has no database, and the well-formed success run before it has no event.
C5_Witness ==
    /\ pc = "raised"
    /\ skip_errors
    /\ Which = "run"
    /\ error = Exception("KeyError", "")
    /\ Len(run_results.results) = 2
    /\ Unassemblable(2)
    /\ Len(runs) = 1
    /\ runs[1].status = "success"
    /\ WellFormedSuccess(runs[1])
    /\ NoEventOf(1)

(* C6, as claimed: after parse_test every dataset (model or source) that has an    *)
(* assertion has exactly one start and one complete event naming it as input, the *)
(* two share a run id, the start carries no assertions facet, the complete's      *)
(* facet lists the dataset's assertions in order, and there is no fail event.     *)
DatasetNameOf(name) ==
    LET node == Lookup(manifest.nodes \o manifest.sources, name)
    IN  node.database[1] \o Dot \o node.schema[1] \o Dot \o node.name[1]

About(events, name) ==
    {k \in DOMAIN events :
        Len(events[k].inputs) = 1 /\ events[k].inputs[1].name = DatasetNameOf(name)}

C6_EveryValidatedDatasetHasItsPair ==
    (pc = "done" /\ Which = "test") =>
        /\ Len(fail_events) = 0
        /\ \A name \in DatasetIds :
            Len(assertions[name]) > 0 =>
                /\ Cardinality(About(start_events, name)) = 1
                /\ Cardinality(About(complete_events, name)) = 1
                /\ \A k \in About(start_events, name), c \in About(complete_events, name) :
                    /\ start_events[k].run.runId = complete_events[c].run.runId
                    /\ ~HasFacet(start_events[k].inputs[1].facets, "dataQualityAssertions")
                    /\ HasFacet(complete_events[c].inputs[1].facets, "dataQualityAssertions")
                    /\ Lookup(complete_events[c].inputs[1].facets,
                              "dataQualityAssertions").assertions = assertions[name]

\* parse_test returned although a source carries an assertion, and no event names it.
C6_Witness ==
    /\ pc = "done"
    /\ Which = "test"
    /\ Len(assertions[RAW]) > 0
    /\ About(start_events, RAW) = {}
    /\ About(complete_events, RAW) = {}

(* C7, as claimed: the events of a success record of model.proj.customers, whose  *)
(* node has database db and schema public, carry the job name db.public.customers.*)
EventsOfRun(events, i) ==
    {k \in DOMAIN events : events[k].run.runId = runs[i].run_id}

C7_JobNameIsUnitBasename ==
    Which = "run" =>
        \A i \in Handled :
            (run_results.results[i].unique_id = CUSTOMERS /\ runs[i].status = "success") =>
                /\ \A k \in EventsOfRun(start_events, i) :
                    start_events[k].job.name = <<"db", ".", "public", ".", "customers">>
                /\ \A k \in EventsOfRun(complete_events, i) :
                    complete_events[k].job.name = <<"db", ".", "public", ".", "customers">>

(* C7, amended: those events carry the job name db.public.proj.customers; in      *)
(* general every event of a run carries database.schema.<unit id without its      *)
(* leading "model.">, the rest of the unit id (project and name) kept.            *)
C7_JobNameKeepsProject ==
    Which = "run" =>
        \A i \in Handled :
            LET unit == run_results.results[i].unique_id
                expected == <<"db", ".", "public", ".">> \o SubSeq(unit, 3, Len(unit))
            IN  /\ unit[1] = "model" /\ unit[2] = "."
                /\ unit = CUSTOMERS =>
                        expected = <<"db", ".", "public", ".", "proj", ".", "customers">>
                /\ \A k \in EventsOfRun(start_events, i) :
                        start_events[k].job.name = expected
                /\ \A k \in EventsOfRun(complete_events, i) :
                        complete_events[k].job.name = expected
                /\ \A k \in EventsOfRun(fail_events, i) :
                        fail_events[k].job.name = expected

\* parse_run returned the start and complete event of a success record of CUSTOMERS.
C7_Witness ==
    /\ pc = "done"
    /\ \E i \in Handled :
        /\ run_results.results[i].unique_id = CUSTOMERS
        /\ runs[i].status = "success"
        /\ EventsOfRun(start_events, i) # {}
        /\ EventsOfRun(complete_events, i) # {}

(* C8: with a profile whose type is neither snowflake nor bigquery, parse raises  *)
(* NotImplementedError at namespace resolution: no run is assembled, no test      *)
(* record read, no event built and nothing returned, whatever skip_errors and the *)
(* job-namespace environment variable are.                                        *)
C8_UnsupportedAdapterStopsParse ==
    (Len(profile) > 0 /\ profile[1].type \notin {"snowflake", "bigquery"}) =>
        /\ pc = "raised"
        /\ error = Exception("NotImplementedError", "")
        /\ Len(returned) = 0
        /\ Len(dataset_namespace) = 0
        /\ Len(runs) = 0
        /\ Len(model_nodes) = 0
        /\ Len(start_events) = 0
        /\ Len(complete_events) = 0
        /\ Len(fail_events) = 0

\* parse raised on a mysql profile with skip_errors set and the override present.
C8_Witness ==
    /\ pc = "raised"
    /\ Len(profile) > 0
    /\ profile[1].type = "mysql"
    /\ skip_errors
    /\ Len(environ) > 0

\* parse raised on a mysql profile with skip_errors unset and no override.
C8_WitnessDefaults ==
    /\ pc = "raised"
    /\ Len(profile) > 0
    /\ profile[1].type = "mysql"
    /\ ~skip_errors
    /\ Len(environ) = 0

(* C9, as claimed: an output dataset carries the outputStatistics facet only when  *)
(* both the byte count and the row count of its catalog node are non-null         *)
(* integers, and never on a start event or without a catalog entry.               *)
HasCatalogEntry(unit) ==
    /\ Len(catalog) > 0
    /\ HasKey(catalog[1].nodes, unit)

CatalogStat(unit, names) ==
    LET stats == Lookup(catalog[1].nodes, unit).stats
    IN  stats[CHOOSE s \in DOMAIN stats : stats[s].k \in names].v

ByteCount(unit) == CatalogStat(unit, {"num_bytes", "bytes"})
RowCount(unit) == CatalogStat(unit, {"num_rows", "row_count"})

NoStartStatistics ==
    \A k \in DOMAIN start_events :
        \A d \in DOMAIN start_events[k].outputs :
            Len(start_events[k].outputs[d].outputFacets) = 0

C9_StatisticsOnlyWithBothCounts ==
    Which = "run" =>
        /\ NoStartStatistics
        /\ \A i \in Handled :
            \A k \in EventsOfRun(complete_events, i) :
                HasFacet(complete_events[k].outputs[1].outputFacets, "outputStatistics") =>
                    /\ HasCatalogEntry(run_results.results[i].unique_id)
                    /\ ByteCount(run_results.results[i].unique_id).kind = "int"
                    /\ RowCount(run_results.results[i].unique_id).kind = "int"

(* C9, amended: the output dataset of a complete event carries outputStatistics   *)
(* exactly when its node has a catalog entry whose row count is a non-null,       *)
(* non-zero integer, whatever the byte count is: rowCount is that row count and   *)
(* size the byte count, null when the byte count is null. Never on a start event. *)
C9_StatisticsFollowRowCount ==
    Which = "run" =>
        /\ NoStartStatistics
        /\ \A i \in Handled :
            \A k \in EventsOfRun(complete_events, i) :
                LET unit == run_results.results[i].unique_id
                    facets == complete_events[k].outputs[1].outputFacets
                IN  IF HasCatalogEntry(unit) /\ RowCount(unit).kind = "int"
                       /\ RowCount(unit).v # 0
                    THEN /\ HasFacet(facets, "outputStatistics")
                         /\ Lookup(facets, "outputStatistics").rowCount = RowCount(unit).v
                         /\ Lookup(facets, "outputStatistics").size =
                                IF ByteCount(unit).kind = "int"
                                THEN Some(ByteCount(unit).v)
                                ELSE None
                    ELSE Len(facets) = 0

\* A complete event carries outputStatistics with a null size: rows known, bytes null.
C9_Witness ==
    /\ pc = "done"
    /\ Which = "run"
    /\ \E k \in DOMAIN complete_events :
        /\ HasFacet(complete_events[k].outputs[1].outputFacets, "outputStatistics")
        /\ Len(Lookup(complete_events[k].outputs[1].outputFacets,
                      "outputStatistics").size) = 0

(* C10, as claimed: each test record's assertion is grouped under the first of    *)
(* the test's parents, in parent_map order, whose id starts with "model." or      *)
(* "source.".                                                                     *)
Matching(parents) ==
    {j \in DOMAIN parents : parents[j][1] \in {"model", "source"} /\ parents[j][2] = "."}

ParentsOfRecord(i) == Lookup(manifest.parent_map, run_results.results[i].unique_id)

C10_GroupedUnderFirstParent ==
    \A i \in DOMAIN model_nodes :
        LET parents == ParentsOfRecord(i)
        IN  /\ Matching(parents) # {}
            /\ \A j \in Matching(parents) :
                (\A m \in Matching(parents) : j <= m) => model_nodes[i] = parents[j]

(* C10, amended: each test record's assertion is grouped under the last of the    *)
(* test's parents, in parent_map order, whose id starts with "model." or          *)
(* "source."; earlier matching parents do not change the choice.                  *)
C10_GroupedUnderLastParent ==
    \A i \in DOMAIN model_nodes :
        LET parents == ParentsOfRecord(i)
        IN  /\ Matching(parents) # {}
            /\ \A j \in Matching(parents) :
                (\A m \in Matching(parents) : m <= j) => model_nodes[i] = parents[j]
            /\ \E a \in DOMAIN assertions[model_nodes[i]] :
                assertions[model_nodes[i]][a].success =
                    (run_results.results[i].status = "pass")

\* parse_test returned for a test with two different matching parents.
C10_Witness ==
    /\ pc = "done"
    /\ \E i \in DOMAIN model_nodes :
        /\ Cardinality(Matching(ParentsOfRecord(i))) = 2
        /\ ParentsOfRecord(i)[1] # ParentsOfRecord(i)[2]
        /\ model_nodes[i] = ParentsOfRecord(i)[2]
        /\ Len(assertions[ParentsOfRecord(i)[1]]) = 0

(* C11, as claimed: whatever calls went before, a parse() call ends as the call   *)
(* of a processor freshly constructed with the same profile_name and target       *)
(* would on the artifacts of that call: it raises where that one raises, and the  *)
(* events it returns carry the namespaces of the profile that one selects, the    *)
(* constructor's target or else the target profiles.yml names now.                *)
FreshTarget ==
    IF Falsy(init_args.target) THEN profile_entry.target ELSE init_args.target[1]

FreshProfile == Lookup(profile_entry.outputs, FreshTarget)

NamespacesAre(events, job_namespace_, dataset_namespace_) ==
    \A k \in DOMAIN events :
        /\ events[k].job.namespace = job_namespace_
        /\ \A d \in DOMAIN events[k].inputs :
                events[k].inputs[d].namespace = dataset_namespace_
        /\ \A d \in DOMAIN events[k].outputs :
                events[k].outputs[d].namespace = dataset_namespace_

C11_LaterCallAsFreshProcessor ==
    (calls >= 1 /\ pc \in {"done", "raised"}) =>
        IF ~HasKey(profile_entry.outputs, FreshTarget)
        THEN pc = "raised" /\ error = Exception("KeyError", "")
        ELSE IF ~extract_namespace(FreshProfile).ok
        THEN pc = "raised" /\ error = Exception("NotImplementedError", "")
        ELSE /\ pc = "done"
             /\ Len(returned) > 0
             /\ NamespacesAre(returned[1].starts,
                              extract_job_namespace(FreshProfile).val,
                              extract_namespace(FreshProfile).val)
             /\ NamespacesAre(returned[1].completes,
                              extract_job_namespace(FreshProfile).val,
                              extract_namespace(FreshProfile).val)
             /\ NamespacesAre(returned[1].fails,
                              extract_job_namespace(FreshProfile).val,
                              extract_namespace(FreshProfile).val)

\* The second call of a processor constructed without target returned events, on a
\* profiles.yml that names another target than the one the first call resolved.
C11_Witness ==
    /\ calls = 2
    /\ pc = "done"
    /\ Len(init_args.target) = 0
    /\ target # Some(profile_entry.target)
    /\ Len(returned) > 0
    /\ Len(returned[1].starts) > 0
    /\ returned[1].starts[1].inputs[1].namespace # extract_namespace(FreshProfile).val

====
